---- MODULE Spec2Model ----
(***************************************************************************)
(* Model of public/app/features/templating/state/queryVariablesReducer.ts  *)
(* (grafana): the per-instance reducer queryVariableReducer, its helpers   *)
(* (sortVariableValues, metricNamesToVariableValues, updateLinkText,       *)
(* updateOptions, updateSelectedValues, updateSelectedTags) and the        *)
(* collection reducer queryVariablesReducer with updateChildState.         *)
(*                                                                         *)
(* Representation.                                                         *)
(*  - A JavaScript string is the sequence of its UTF-16 code units, so     *)
(*    that join, toString, toLower, the digit pattern of the numeric sort  *)
(*    and string comparison are computed and not assumed.                  *)
(*  - A JavaScript value that may be undefined, null, a string, a number   *)
(*    or an array of strings is a record [k, s, n, a] (see Str, Num, Arr). *)
(*  - A Deferred is an object on a heap (the variable deferreds); initLock *)
(*    holds a reference to it (0 stands for undefined / null).             *)
(*  - A reducer call yields [threw, state, deferreds]; threw = TRUE is a   *)
(*    TypeError leaving the store as it was.                               *)
(*  - Fields of QueryVariableModel that the reducer only copies and never  *)
(*    reads (global, index, label, hide, skipUrlSync, datasource, query,   *)
(*    refresh, allValue, useTags, tagsQuery, tagValuesQuery, definition)   *)
(*    are left out of the state.                                           *)
(***************************************************************************)
EXTENDS Integers, Sequences, FiniteSets, TLC

(***************************************************************************)
(* Strings as sequences of code units                                      *)
(***************************************************************************)

\* 'All'
ALL_VARIABLE_TEXT == <<65, 108, 108>>

\* '$__all'
ALL_VARIABLE_VALUE == <<36, 95, 95, 97, 108, 108>>

\* 'None'
NONE_VARIABLE_TEXT == <<78, 111, 110, 101>>

\* ''
NONE_VARIABLE_VALUE == <<>>

\* ' + ', the separator of the join calls
PlusSeparator == <<32, 43, 32>>

\* String.prototype < on two strings: code unit by code unit, a proper prefix first
StrLess(x, y) ==
  \E k \in 1..Len(y) :
    /\ k <= Len(x) + 1
    /\ \A j \in 1..(k - 1) : x[j] = y[j]
    /\ (k = Len(x) + 1 \/ x[k] < y[k])

\* Array.prototype.join(sep) on an array of strings
RECURSIVE Join(_, _)
Join(strs, sep) ==
  IF Len(strs) = 0 THEN <<>>
  ELSE IF Len(strs) = 1 THEN strs[1]
  ELSE strs[1] \o sep \o Join(Tail(strs), sep)

\* Number.prototype.toString() of a natural number
RECURSIVE NumberToString(_)
NumberToString(n) ==
  IF n < 10 THEN <<48 + n>>
  ELSE NumberToString(n \div 10) \o <<48 + (n % 10)>>

\* parseInt(digits, 10) of a non-empty string of decimal digits
RECURSIVE ParseInt(_)
ParseInt(digits) ==
  IF Len(digits) = 0 THEN 0
  ELSE 10 * ParseInt(SubSeq(digits, 1, Len(digits) - 1)) + (digits[Len(digits)] - 48)

\* _.toLower on a string of ASCII characters
ToLower(str) ==
  [i \in 1..Len(str) |-> IF str[i] \in 65..90 THEN str[i] + 32 ELSE str[i]]

IsDigit(c) == c \in 48..57

(***************************************************************************)
(* JavaScript values                                                       *)
(***************************************************************************)

Undefined == [k |-> "undefined", s |-> <<>>, n |-> 0, a |-> <<>>]

Null == [k |-> "null", s |-> <<>>, n |-> 0, a |-> <<>>]

Str(str) == [k |-> "string", s |-> str, n |-> 0, a |-> <<>>]

Num(num) == [k |-> "number", s |-> <<>>, n |-> num, a |-> <<>>]

Arr(arr) == [k |-> "array", s |-> <<>>, n |-> 0, a |-> arr]

\* x === undefined || x === null
IsNil(x) == x.k \in {"undefined", "null"}

\* a VariableOption; isNone is optional in the source and FALSE stands for absent
Option(text, value, selected) ==
  [text |-> text, value |-> value, selected |-> selected, isNone |-> FALSE]

(***************************************************************************)
(* sortVariableValues                                                      *)
(***************************************************************************)

\* _.sortBy: ascending by the iteratee's key, ties in input order
SortBy(options, Key(_), Less(_, _)) ==
  LET n == Len(options)
      before(j, i) ==
        \/ Less(Key(options[j]), Key(options[i]))
        \/ (~Less(Key(options[i]), Key(options[j])) /\ j < i)
      rank(i) == Cardinality({j \in 1..n : before(j, i)}) + 1
  IN  [r \in 1..n |-> options[CHOOSE i \in 1..n : rank(i) = r]]

\* Array.prototype.reverse
\* fault: the sorted options are not reversed
Reverse_Skipped(arr) == arr

Reverse(arr) == [i \in 1..Len(arr) |-> arr[Len(arr) + 1 - i]]

\* the iteratee of sort type 2: text.match(/.*?(\d+).*/), then parseInt of group 1, or -1
NumericSortKey(opt) ==
  LET text == opt.text
      digitAt == {i \in 1..Len(text) : IsDigit(text[i])}
  IN  IF digitAt = {} THEN -1
      ELSE LET first == CHOOSE i \in digitAt : \A j \in digitAt : i <= j
               last == CHOOSE e \in first..Len(text) :
                         /\ \A j \in first..e : IsDigit(text[j])
                         /\ (e = Len(text) \/ ~IsDigit(text[e + 1]))
           IN  ParseInt(SubSeq(text, first, last))

TextSortKey(opt) == opt.text

LowerSortKey(opt) == ToLower(opt.text)

NumLess(x, y) == x < y

sortVariableValues(options, sortOrder) ==
  IF sortOrder = 0 THEN options
  ELSE
    LET sortType == (sortOrder + 1) \div 2
        reverseSort == sortOrder % 2 = 0
        sorted ==
          IF sortType = 1 THEN SortBy(options, TextSortKey, StrLess)
          ELSE IF sortType = 2 THEN SortBy(options, NumericSortKey, NumLess)
          ELSE IF sortType = 3 THEN SortBy(options, LowerSortKey, StrLess)
          ELSE options
    IN  IF reverseSort THEN Reverse(sorted) ELSE sorted

(***************************************************************************)
(* metricNamesToVariableValues                                             *)
(***************************************************************************)

\* the pattern sources the model draws variable.regex from; '' means no regex
RegexStartsWithA == "/^a/"

RegexAfterFirstChar == "/^.(.*)/"

\* regex.exec(value) of the compiled pattern: the match array (<<m0, groups...>>)
\* or <<>> for null
RegexExec(regex, value) ==
  IF regex = RegexStartsWithA
    THEN IF Len(value) >= 1 /\ value[1] = 97 THEN << <<97>> >> ELSE <<>>
  ELSE IF regex = RegexAfterFirstChar
    THEN IF Len(value) >= 1 THEN <<value, Tail(value)>> ELSE <<>>
  ELSE << <<>> >>

\* one raw result as a string: numbers are stringified
RawToString(x) == IF x.k = "number" THEN NumberToString(x.n) ELSE x.s

\* the body of the for loop: the option pushed for one item, or <<>> on continue
MetricNameToOption(variableRegEx, item) ==
  LET text0 == RawToString(IF IsNil(item.text) THEN item.value ELSE item.text)
      value0 == RawToString(IF IsNil(item.value) THEN item.text ELSE item.value)
  IN  IF variableRegEx # ""
        THEN LET matches == RegexExec(variableRegEx, value0)
             IN  IF Len(matches) = 0 THEN <<>>
                 ELSE IF Len(matches) > 1
                   THEN <<Option(matches[2], matches[2], FALSE)>>
                 ELSE <<Option(text0, value0, FALSE)>>
        ELSE <<Option(text0, value0, FALSE)>>

\* _.uniqBy(options, 'value'): the first option of every value, in input order
RECURSIVE UniqByValueFrom(_, _)
UniqByValueFrom(options, result) ==
  IF Len(options) = 0 THEN result
  ELSE IF \E i \in 1..Len(result) : result[i].value = options[1].value
    THEN UniqByValueFrom(Tail(options), result)
  ELSE UniqByValueFrom(Tail(options), Append(result, options[1]))

\* fault: the options are not deduplicated
UniqByValue_KeepsRepeated(options) == options

UniqByValue(options) == UniqByValueFrom(options, <<>>)

RECURSIVE PushedOptions(_, _)
PushedOptions(variableRegEx, metricNames) ==
  IF Len(metricNames) = 0 THEN <<>>
  ELSE MetricNameToOption(variableRegEx, metricNames[1])
         \o PushedOptions(variableRegEx, Tail(metricNames))

metricNamesToVariableValues(variableRegEx, sort, metricNames) ==
  sortVariableValues(UniqByValue(PushedOptions(variableRegEx, metricNames)), sort)

(***************************************************************************)
(* State records                                                           *)
(***************************************************************************)

\* a VariableTag (text is a JavaScript value); hasValues = FALSE is a tag whose
\* optional values list is absent
Tag(text, selected, hasValues, values) ==
  [text |-> text, selected |-> selected, hasValues |-> hasValues, values |-> values]

\* a current selection; tags = <<>> stands for an absent as well as for an empty
\* tags list (the only reader, updateLinkText, treats the two alike)
Current(text, value, tags) == [text |-> text, value |-> value, tags |-> tags]

\* the initLock field: undefined, null or a reference to a Deferred of the heap
InitLockUndefined == [k |-> "undefined", ref |-> 0]

InitLockNull == [k |-> "null", ref |-> 0]

InitLockRef(ref) == [k |-> "ref", ref |-> ref]

initialQueryVariablePickerState ==
  [ highlightIndex |-> -1,
    linkText |-> Null,
    queryHasSearchFilter |-> FALSE,
    searchOptions |-> <<>>,
    searchQuery |-> Null,
    selectedTags |-> <<>>,
    selectedValues |-> <<>>,
    showDropDown |-> FALSE,
    tags |-> <<>>,
    options |-> <<>>,
    oldVariableText |-> Null ]

initialQueryVariableModelState ==
  [ type |-> "query",
    name |-> "",
    regex |-> "",
    sort |-> 0,
    multi |-> FALSE,
    includeAll |-> FALSE,
    options |-> <<>>,
    current |-> Current(Undefined, Undefined, <<>>),
    tags |-> <<>>,
    initLock |-> InitLockUndefined ]

initialQueryVariableState ==
  [picker |-> initialQueryVariablePickerState, variable |-> initialQueryVariableModelState]

(***************************************************************************)
(* The post-processing steps                                               *)
(***************************************************************************)

\* updateLinkText throws a TypeError when it calls findIndex on the absent values
\* list of a tag: for a selected option that no earlier tag's values hold
updateLinkTextThrows(state) ==
  LET current == state.variable.current
      options == state.variable.options
  IN  /\ Len(current.tags) > 0
      /\ \E o \in 1..Len(options) :
           /\ options[o].selected
           /\ \E i \in 1..Len(current.tags) :
                /\ ~current.tags[i].hasValues
                /\ \A j \in 1..(i - 1) :
                     \A v \in 1..Len(current.tags[j].values) :
                       current.tags[j].values[v] # options[o].value

updateLinkText(state) ==
  LET current == state.variable.current
      options == state.variable.options
      InTag(option) ==
        \E i \in 1..Len(current.tags) :
          \E v \in 1..Len(current.tags[i].values) :
            current.tags[i].values[v] = option.value
      selectedAndNotInTag == SelectSeq(options, LAMBDA option : option.selected /\ ~InTag(option))
      currentTexts == [i \in 1..Len(selectedAndNotInTag) |-> selectedAndNotInTag[i].text]
      newLinkText == Join(currentTexts, PlusSeparator)
  IN  IF Len(current.tags) = 0
        THEN [state EXCEPT !.picker.linkText = current.text]
        ELSE [state EXCEPT !.picker.linkText =
                Str(IF Len(newLinkText) > 0 THEN newLinkText \o PlusSeparator ELSE newLinkText)]

updateSelectedValues(state) ==
  [state EXCEPT !.picker.selectedValues = SelectSeq(state.variable.options, LAMBDA o : o.selected)]

\* fault: picker.selectedTags is not recomputed
updateSelectedTags_Stale(state) == state

updateSelectedTags(state) ==
  [state EXCEPT !.picker.selectedTags = SelectSeq(state.variable.tags, LAMBDA t : t.selected)]

Min(x, y) == IF x < y THEN x ELSE y

\* fault: the slice is not capped
updateOptions_Uncapped(state) ==
  [state EXCEPT !.picker.options = state.variable.options]

updateOptions(state) ==
  [state EXCEPT !.picker.options =
     SubSeq(state.variable.options, 1, Min(Len(state.variable.options), 1000))]

Returned(state, deferreds) == [threw |-> FALSE, state |-> state, deferreds |-> deferreds]

Thrown(state, deferreds) == [threw |-> TRUE, state |-> state, deferreds |-> deferreds]

\* Op applied to the value of its argument (the argument is evaluated once)
ApplyTo(value, Op(_)) == CHOOSE result \in {Op(v) : v \in {value}} : TRUE

\* appyStateChanges(newState, updateLinkText, updateOptions, updateSelectedValues,
\* updateSelectedTags), as every caller applies it: the reduce runs the four steps
\* in this order, and a step that throws ends the reducer
appyStateChanges(newState, deferreds) ==
  ApplyTo(newState,
          LAMBDA s :
            IF updateLinkTextThrows(s)
              THEN Thrown(s, deferreds)
              ELSE Returned(updateSelectedTags(updateSelectedValues(updateOptions(updateLinkText(s)))),
                            deferreds))

(***************************************************************************)
(* Redux actions                                                           *)
(***************************************************************************)

NoEvent == [ctrlKey |-> FALSE, metaKey |-> FALSE, shiftKey |-> FALSE]

NoModel ==
  [type |-> "", name |-> "", regex |-> "", sort |-> 0, multi |-> FALSE, includeAll |-> FALSE,
   options |-> <<>>, current |-> Current(Undefined, Undefined, <<>>), tags |-> <<>>]

\* an action of ./actions: kind is the action creator; type and name route it
\* (payload.variable or payload itself); the other fields are its payload
Action(kind, type, name) ==
  [kind |-> kind, type |-> type, name |-> name, model |-> NoModel, results |-> <<>>,
   current |-> Current(Undefined, Undefined, <<>>), option |-> Option(<<>>, <<>>, FALSE),
   forceSelect |-> FALSE, event |-> NoEvent]

addVariable(model) ==
  [Action("addVariable", model.type, model.name) EXCEPT !.model = model]

updateVariableOptions(type, name, results) ==
  [Action("updateVariableOptions", type, name) EXCEPT !.results = results]

updateVariableTags(type, name, results) ==
  [Action("updateVariableTags", type, name) EXCEPT !.results = results]

setCurrentVariableValue(type, name, current) ==
  [Action("setCurrentVariableValue", type, name) EXCEPT !.current = current]

setInitLock(type, name) == Action("setInitLock", type, name)

resolveInitLock(type, name) == Action("resolveInitLock", type, name)

removeInitLock(type, name) == Action("removeInitLock", type, name)

selectVariableOption(type, name, option, forceSelect, event) ==
  [Action("selectVariableOption", type, name) EXCEPT
     !.option = option, !.forceSelect = forceSelect, !.event = event]

showQueryVariableDropDown(type, name) == Action("showQueryVariableDropDown", type, name)

hideQueryVariableDropDown(type, name) == Action("hideQueryVariableDropDown", type, name)

(***************************************************************************)
(* queryVariableReducer, one operator per branch                           *)
(***************************************************************************)

ReduceAddVariable(state, deferreds, action) ==
  LET model == action.model
  IN  Returned([state EXCEPT
                  !.variable.type = model.type,
                  !.variable.name = model.name,
                  !.variable.regex = model.regex,
                  !.variable.sort = model.sort,
                  !.variable.multi = model.multi,
                  !.variable.includeAll = model.includeAll,
                  !.variable.options = model.options,
                  !.variable.current = model.current,
                  !.variable.tags = model.tags],
               deferreds)

ReduceUpdateVariableOptions(state, deferreds, action) ==
  LET results == action.results
      regex == state.variable.regex
      includeAll == state.variable.includeAll
      sort == state.variable.sort
      normalized == metricNamesToVariableValues(regex, sort, results)
      withAll ==
        IF includeAll
          THEN <<Option(ALL_VARIABLE_TEXT, ALL_VARIABLE_VALUE, FALSE)>> \o normalized
          ELSE normalized
      options ==
        IF Len(withAll) = 0
          THEN <<[Option(NONE_VARIABLE_TEXT, NONE_VARIABLE_VALUE, FALSE) EXCEPT !.isNone = TRUE]>>
          ELSE withAll
  IN  Returned([state EXCEPT !.variable.options = options], deferreds)

ReduceUpdateVariableTags(state, deferreds, action) ==
  LET results == action.results
      tags == [i \in 1..Len(results) |-> Tag(results[i].text, FALSE, FALSE, <<>>)]
  IN  Returned([state EXCEPT !.variable.tags = tags], deferreds)

\* lines 335-339: the payload's text after the in-place join
JoinedCurrentText(current) ==
  IF current.text.k = "array" /\ Len(current.text.a) > 0
    THEN Str(Join(current.text.a, PlusSeparator))
  ELSE IF current.value.k = "array"
          /\ (Len(current.value.a) = 0 \/ current.value.a[1] # ALL_VARIABLE_VALUE)
    THEN Str(Join(current.value.a, PlusSeparator))
  ELSE current.text

\* fault: the members of an array value are not looked at
SelectedByCurrent_ScalarOnly(option, current) ==
  current.value.k = "string" /\ option.value = current.value.s

\* fault: the option's text is compared instead of its value
SelectedByCurrent_ByText(option, current) ==
  IF current.value.k = "array"
    THEN \E index \in 1..Len(current.value.a) : option.text = current.value.a[index]
    ELSE current.value.k = "string" /\ option.text = current.value.s

\* fault: only the first member of an array value is compared
SelectedByCurrent_FirstMemberOnly(option, current) ==
  IF current.value.k = "array"
    THEN Len(current.value.a) > 0 /\ option.value = current.value.a[1]
    ELSE current.value.k = "string" /\ option.value = current.value.s

\* lines 347-358: the selected flag of one option under current
SelectedByCurrent(option, current) ==
  IF current.value.k = "array"
    THEN \E index \in 1..Len(current.value.a) : option.value = current.value.a[index]
    ELSE current.value.k = "string" /\ option.value = current.value.s

ReduceSetCurrentVariableValue(state, deferreds, action) ==
  LET current == [action.current EXCEPT !.text = JoinedCurrentText(action.current)]
      newState ==
        [state EXCEPT
           !.variable.current = current,
           !.variable.options =
             [i \in 1..Len(state.variable.options) |->
                [state.variable.options[i] EXCEPT
                   !.selected = SelectedByCurrent(state.variable.options[i], current)]]]
  IN  appyStateChanges(newState, deferreds)

\* fault: a lock the instance already holds is kept instead of replaced
ReduceSetInitLock_KeepsExisting(state, deferreds, action) ==
  IF state.variable.initLock.k = "ref" THEN Returned(state, deferreds)
  ELSE Returned([state EXCEPT !.variable.initLock = InitLockRef(Len(deferreds) + 1)],
                Append(deferreds, "pending"))

ReduceSetInitLock(state, deferreds, action) ==
  Returned([state EXCEPT !.variable.initLock = InitLockRef(Len(deferreds) + 1)],
           Append(deferreds, "pending"))

\* Deferred.resolve(): settles a pending promise, does nothing to a settled one
DeferredResolve(deferreds, ref) == [deferreds EXCEPT ![ref] = "resolved"]

ReduceResolveInitLock(state, deferreds, action) ==
  IF state.variable.initLock.k # "ref"
    THEN Thrown(state, deferreds)
    ELSE Returned(state, DeferredResolve(deferreds, state.variable.initLock.ref))

ReduceRemoveInitLock(state, deferreds, action) ==
  Returned([state EXCEPT !.variable.initLock = InitLockNull], deferreds)

\* fault: a single-select click leaves the other options as they were
SelectedBySelectOption_KeepsOthers(o, option, forceSelect, event, multi) ==
  IF o.value # option.value
    THEN IF o.text = ALL_VARIABLE_TEXT \/ option.text = ALL_VARIABLE_TEXT THEN FALSE
         ELSE IF event.ctrlKey \/ event.metaKey \/ event.shiftKey THEN FALSE
         ELSE o.selected
    ELSE IF forceSelect THEN TRUE ELSE IF multi THEN ~option.selected ELSE TRUE

\* fault: the "All" option is treated like any other option
SelectedBySelectOption_AllNotSpecial(o, option, forceSelect, event, multi) ==
  IF o.value # option.value
    THEN IF ~multi THEN FALSE
         ELSE IF event.ctrlKey \/ event.metaKey \/ event.shiftKey THEN FALSE
         ELSE o.selected
    ELSE IF forceSelect THEN TRUE ELSE IF multi THEN ~option.selected ELSE TRUE

\* fault: a multi-select click negates the stored flag, not the flag of the event's option
SelectedBySelectOption_TogglesStored(o, option, forceSelect, event, multi) ==
  IF o.value # option.value
    THEN IF o.text = ALL_VARIABLE_TEXT \/ option.text = ALL_VARIABLE_TEXT THEN FALSE
         ELSE IF ~multi THEN FALSE
         ELSE IF event.ctrlKey \/ event.metaKey \/ event.shiftKey THEN FALSE
         ELSE o.selected
    ELSE IF forceSelect THEN TRUE ELSE IF multi THEN ~o.selected ELSE TRUE

\* lines 387-407: the selected flag the map gives option o
SelectedBySelectOption(o, option, forceSelect, event, multi) ==
  IF o.value # option.value
    THEN IF o.text = ALL_VARIABLE_TEXT \/ option.text = ALL_VARIABLE_TEXT THEN FALSE
         ELSE IF ~multi THEN FALSE
         ELSE IF event.ctrlKey \/ event.metaKey \/ event.shiftKey THEN FALSE
         ELSE o.selected
    ELSE IF forceSelect THEN TRUE ELSE IF multi THEN ~option.selected ELSE TRUE

\* fault: no option is selected when the map leaves none selected
SelectFirstWhenNoneSelected_Missing(newOptions) == newOptions

\* lines 408-410: the first option is selected when none is
SelectFirstWhenNoneSelected(newOptions) ==
  IF Len(newOptions) > 0 /\ Len(SelectSeq(newOptions, LAMBDA o : o.selected)) = 0
    THEN [newOptions EXCEPT ![1].selected = TRUE]
    ELSE newOptions

ReduceSelectVariableOption(state, deferreds, action) ==
  LET multi == state.variable.multi
      mapped ==
        [i \in 1..Len(state.variable.options) |->
           [state.variable.options[i] EXCEPT
              !.selected = SelectedBySelectOption(state.variable.options[i], action.option,
                                                  action.forceSelect, action.event, multi)]]
      newOptions == SelectFirstWhenNoneSelected(mapped)
      newState == [state EXCEPT !.variable.options = newOptions]
  IN  appyStateChanges(newState, deferreds)

ReduceShowQueryVariableDropDown(state, deferreds, action) ==
  LET current == state.variable.current
      searchQuery ==
        IF /\ state.picker.queryHasSearchFilter
           /\ state.picker.searchQuery.k = "string"
           /\ Len(state.picker.searchQuery.s) > 0
          THEN state.picker.searchQuery
          ELSE Str(<<>>)
      newState ==
        [state EXCEPT
           !.picker.oldVariableText = current.text,
           !.picker.highlightIndex = -1,
           !.picker.searchQuery = searchQuery,
           !.picker.showDropDown = TRUE]
  IN  appyStateChanges(newState, deferreds)

ReduceHideQueryVariableDropDown(state, deferreds, action) ==
  appyStateChanges([state EXCEPT !.picker.showDropDown = FALSE], deferreds)

queryVariableReducer(state, deferreds, action) ==
  IF action.kind = "addVariable" THEN ReduceAddVariable(state, deferreds, action)
  ELSE IF action.kind = "updateVariableOptions" THEN ReduceUpdateVariableOptions(state, deferreds, action)
  ELSE IF action.kind = "updateVariableTags" THEN ReduceUpdateVariableTags(state, deferreds, action)
  ELSE IF action.kind = "setCurrentVariableValue" THEN ReduceSetCurrentVariableValue(state, deferreds, action)
  ELSE IF action.kind = "setInitLock" THEN ReduceSetInitLock(state, deferreds, action)
  ELSE IF action.kind = "resolveInitLock" THEN ReduceResolveInitLock(state, deferreds, action)
  ELSE IF action.kind = "removeInitLock" THEN ReduceRemoveInitLock(state, deferreds, action)
  ELSE IF action.kind = "selectVariableOption" THEN ReduceSelectVariableOption(state, deferreds, action)
  ELSE IF action.kind = "showQueryVariableDropDown" THEN ReduceShowQueryVariableDropDown(state, deferreds, action)
  ELSE IF action.kind = "hideQueryVariableDropDown" THEN ReduceHideQueryVariableDropDown(state, deferreds, action)
  ELSE Returned(state, deferreds)

(***************************************************************************)
(* updateChildState and queryVariablesReducer                              *)
(***************************************************************************)

\* Array.prototype.findIndex by variable.name, 1-based; 0 for the source's -1
FindIndexByName(state, name) ==
  IF \E i \in 1..Len(state) : state[i].variable.name = name
    THEN CHOOSE i \in 1..Len(state) :
           /\ state[i].variable.name = name
           /\ \A j \in 1..(i - 1) : state[j].variable.name # name
    ELSE 0

\* fault: every instance is replaced by the reduced one
ReplaceAt_EveryInstance(state, instanceIndex, instance) ==
  [index \in 1..Len(state) |-> instance]

\* state.map: the instance at instanceIndex replaced, the others as they are
ReplaceAt(state, instanceIndex, instance) == [state EXCEPT ![instanceIndex] = instance]

\* fault: the instance reducer is called with the undefined state[-1]
updateChildState_ReducesMissing(state, deferreds, type, name, action) ==
  IF type # "query" THEN Returned(state, deferreds)
  ELSE
    LET instanceIndex == FindIndexByName(state, name)
    IN  IF instanceIndex = 0 THEN Thrown(state, deferreds)
        ELSE [queryVariableReducer(state[instanceIndex], deferreds, action) EXCEPT
                !.state = ReplaceAt(state, instanceIndex, @)]

updateChildState(state, deferreds, type, name, action) ==
  IF type # "query" THEN Returned(state, deferreds)
  ELSE
    LET instanceIndex == FindIndexByName(state, name)
    IN  IF instanceIndex = 0 THEN Returned(state, deferreds)
        ELSE [queryVariableReducer(state[instanceIndex], deferreds, action) EXCEPT
                !.state = ReplaceAt(state, instanceIndex, @)]

initialQueryVariablesState == <<>>

queryVariablesReducer(state, deferreds, action) ==
  IF action.kind = "addVariable"
    THEN IF action.model.type # "query" THEN Returned(state, deferreds)
         ELSE Returned(Append(state, queryVariableReducer(initialQueryVariableState, deferreds, action).state),
                       deferreds)
  ELSE IF action.kind \in {"updateVariableOptions", "updateVariableTags", "setCurrentVariableValue",
                           "setInitLock", "resolveInitLock", "removeInitLock",
                           "selectVariableOption", "showQueryVariableDropDown",
                           "hideQueryVariableDropDown"}
    THEN updateChildState(state, deferreds, action.type, action.name, action)
  ELSE Returned(state, deferreds)

(***************************************************************************)
(* The store                                                               *)
(***************************************************************************)

VARIABLES
  state,      \* the QueryVariableState[] of the store
  deferreds,  \* the Deferred objects created so far: "pending" or "resolved"
  last,       \* the action dispatched last, and whether its reducer threw
  awaiters    \* the callers that took a lock handle to await it: [handle, done]

vars == <<state, deferreds, last, awaiters>>

\* instances the collection may hold
MaxInstances == 1

\* Deferreds ever created
MaxDeferreds == 1

Init ==
  /\ state = initialQueryVariablesState
  /\ deferreds = <<>>
  /\ last = [action |-> Action("@@INIT", "", ""), threw |-> FALSE]
  /\ awaiters = <<>>

\* store.dispatch(action) with reduced = queryVariablesReducer(state, action):
\* a reducer that throws leaves the store unchanged
Dispatch(reduced) ==
  /\ state' = IF reduced.threw THEN state ELSE reduced.state
  /\ deferreds' = IF reduced.threw THEN deferreds ELSE reduced.deferreds
  /\ awaiters' = awaiters

\* One action per event; each draws its payload from the sets it is given.

AddInstance(models) ==
  \E model \in models :
    \E action \in {addVariable(model)} :
      \E reduced \in {queryVariablesReducer(state, deferreds, action)} :
        /\ Len(state) < MaxInstances
        /\ Dispatch(reduced)
        /\ last' = [action |-> action, threw |-> reduced.threw]

ReplaceOptionsFromResults(targets, resultLists) ==
  \E t \in targets, results \in resultLists :
    \E action \in {updateVariableOptions(t[1], t[2], results)} :
      \E reduced \in {queryVariablesReducer(state, deferreds, action)} :
        /\ Dispatch(reduced)
        /\ last' = [action |-> action, threw |-> reduced.threw]

ReplaceTagsFromResults(targets, resultLists) ==
  \E t \in targets, results \in resultLists :
    \E action \in {updateVariableTags(t[1], t[2], results)} :
      \E reduced \in {queryVariablesReducer(state, deferreds, action)} :
        /\ Dispatch(reduced)
        /\ last' = [action |-> action, threw |-> reduced.threw]

SetCurrent(targets, currents) ==
  \E t \in targets, current \in currents :
    \E action \in {setCurrentVariableValue(t[1], t[2], current)} :
      \E reduced \in {queryVariablesReducer(state, deferreds, action)} :
        /\ Dispatch(reduced)
        /\ last' = [action |-> action, threw |-> reduced.threw]

BeginInitLock(targets) ==
  \E t \in targets :
    \E action \in {setInitLock(t[1], t[2])} :
      \E reduced \in {queryVariablesReducer(state, deferreds, action)} :
        /\ Len(deferreds) < MaxDeferreds
        /\ Dispatch(reduced)
        /\ last' = [action |-> action, threw |-> reduced.threw]

ResolveInitLock(targets) ==
  \E t \in targets :
    \E action \in {resolveInitLock(t[1], t[2])} :
      \E reduced \in {queryVariablesReducer(state, deferreds, action)} :
        /\ Dispatch(reduced)
        /\ last' = [action |-> action, threw |-> reduced.threw]

ReleaseInitLock(targets) ==
  \E t \in targets :
    \E action \in {removeInitLock(t[1], t[2])} :
      \E reduced \in {queryVariablesReducer(state, deferreds, action)} :
        /\ Dispatch(reduced)
        /\ last' = [action |-> action, threw |-> reduced.threw]

SelectOption(targets, options, forceSelects, events) ==
  \E t \in targets, option \in options, forceSelect \in forceSelects, event \in events :
    \E action \in {selectVariableOption(t[1], t[2], option, forceSelect, event)} :
      \E reduced \in {queryVariablesReducer(state, deferreds, action)} :
        /\ Dispatch(reduced)
        /\ last' = [action |-> action, threw |-> reduced.threw]

OpenDropdown(targets) ==
  \E t \in targets :
    \E action \in {showQueryVariableDropDown(t[1], t[2])} :
      \E reduced \in {queryVariablesReducer(state, deferreds, action)} :
        /\ Dispatch(reduced)
        /\ last' = [action |-> action, threw |-> reduced.threw]

CloseDropdown(targets) ==
  \E t \in targets :
    \E action \in {hideQueryVariableDropDown(t[1], t[2])} :
      \E reduced \in {queryVariablesReducer(state, deferreds, action)} :
        /\ Dispatch(reduced)
        /\ last' = [action |-> action, threw |-> reduced.threw]

\* addVariable while the collection holds fewer than limit instances
AddInstanceWithin(models, limit) ==
  \E model \in models :
    \E action \in {addVariable(model)} :
      \E reduced \in {queryVariablesReducer(state, deferreds, action)} :
        /\ Len(state) < limit
        /\ Dispatch(reduced)
        /\ last' = [action |-> action, threw |-> reduced.threw]

\* setInitLock while fewer than limit Deferreds were created
BeginInitLockWithin(targets, limit) ==
  \E t \in targets :
    \E action \in {setInitLock(t[1], t[2])} :
      \E reduced \in {queryVariablesReducer(state, deferreds, action)} :
        /\ Len(deferreds) < limit
        /\ Dispatch(reduced)
        /\ last' = [action |-> action, threw |-> reduced.threw]

\* a caller reads the instance's initLock and awaits its promise
TakeLockHandle(targets, limit) ==
  \E t \in targets :
    \E n \in {FindIndexByName(state, t[2])} :
      /\ n # 0
      /\ state[n].variable.initLock.k = "ref"
      /\ Len(awaiters) < limit
      /\ awaiters' = Append(awaiters, [handle |-> state[n].variable.initLock.ref, done |-> FALSE])
      /\ UNCHANGED <<state, deferreds, last>>

\* the promise of a resolved Deferred lets the caller that awaits it go on
AwaiterCompletes ==
  \E i \in 1..Len(awaiters) :
    /\ ~awaiters[i].done
    /\ deferreds[awaiters[i].handle] = "resolved"
    /\ awaiters' = [awaiters EXCEPT ![i].done = TRUE]
    /\ UNCHANGED <<state, deferreds, last>>

(***************************************************************************)
(* Inputs                                                                  *)
(***************************************************************************)

\* 'a', 'b', 'x', 't', '1'
StrA == <<97>>

StrB == <<98>>

StrX == <<120>>

StrT == <<116>>

StrOne == <<49>>

\* the (type, name) the routed actions carry
Targets == {<<"query", "v1">>}

RawItem(text, value) == [text |-> text, value |-> value]

Model(name, multi, includeAll, regex, sort, options, current, tags) ==
  [type |-> "query", name |-> name, regex |-> regex, sort |-> sort, multi |-> multi,
   includeAll |-> includeAll, options |-> options, current |-> current, tags |-> tags]

NoCurrent == Current(Undefined, Undefined, <<>>)

\* the modifier keys of the click
Events ==
  { NoEvent,
    [NoEvent EXCEPT !.ctrlKey = TRUE],
    [NoEvent EXCEPT !.metaKey = TRUE],
    [NoEvent EXCEPT !.shiftKey = TRUE] }

\* results with a repeated value, a missing text and a missing value
RepeatedResults ==
  <<RawItem(Undefined, Str(StrA)), RawItem(Str(StrB), Str(StrA)), RawItem(Str(StrB), Null)>>

\* a result that carries the value of the "All" option
AllValueResults == <<RawItem(Str(StrX), Str(ALL_VARIABLE_VALUE))>>

\* a dashboard's saved variable: options, the current selection and a selected tag
SavedOptions ==
  <<Option(ALL_VARIABLE_TEXT, ALL_VARIABLE_VALUE, FALSE), Option(StrA, StrA, TRUE),
    Option(StrB, StrB, FALSE)>>

SavedTags == <<Tag(Str(StrT), TRUE, TRUE, <<StrA>>)>>

CurrentA == Current(Str(StrA), Str(StrA), <<>>)

CurrentAB == Current(Arr(<<StrA, StrB>>), Arr(<<StrA, StrB>>), <<>>)

CurrentAll == Current(Str(ALL_VARIABLE_TEXT), Arr(<<ALL_VARIABLE_VALUE>>), <<>>)

CurrentX == Current(Str(StrX), Str(StrX), <<>>)

\* a selection with a tag that covers 'a'
CurrentTagged == Current(Str(StrA), Arr(<<StrA, StrB>>), <<Tag(Str(StrT), TRUE, TRUE, <<StrA>>)>>)

\* a selection with a tag whose values list is absent
CurrentTagNoValues == Current(Str(StrA), Arr(<<StrA>>), <<Tag(Str(StrT), TRUE, FALSE, <<>>)>>)

(***************************************************************************)
(* Spec: one instance under all ten events                                 *)
(***************************************************************************)

Models ==
  { Model("v1", FALSE, FALSE, "", 0, <<>>, NoCurrent, <<>>),
    Model("v1", TRUE, TRUE, "", 0, SavedOptions, CurrentA, SavedTags) }

OptionResults == { RepeatedResults, AllValueResults }

TagResults == { <<RawItem(Str(StrT), Undefined)>> }

Currents == { CurrentA, CurrentTagged, CurrentTagNoValues }

ChosenOptions ==
  { Option(ALL_VARIABLE_TEXT, ALL_VARIABLE_VALUE, FALSE),
    Option(StrA, StrA, FALSE),
    Option(StrA, StrA, TRUE) }

Next ==
  \/ AddInstance(Models)
  \/ ReplaceOptionsFromResults(Targets, OptionResults)
  \/ ReplaceTagsFromResults(Targets, TagResults)
  \/ SetCurrent(Targets, Currents)
  \/ BeginInitLock(Targets)
  \/ ResolveInitLock(Targets)
  \/ ReleaseInitLock(Targets)
  \/ SelectOption(Targets, ChosenOptions, BOOLEAN, {NoEvent, [NoEvent EXCEPT !.ctrlKey = TRUE]})
  \/ OpenDropdown(Targets)
  \/ CloseDropdown(Targets)

Spec == Init /\ [][Next]_vars

(***************************************************************************)
(* SelectionSpec: the events that set the selected flags, with every       *)
(* combination of multi, includeAll, forceSelect and modifier key          *)
(***************************************************************************)

SelectionModels ==
  { Model("v1", multi, includeAll, "", 0, <<>>, NoCurrent, <<>>) :
      multi \in BOOLEAN, includeAll \in BOOLEAN }
  \cup { Model("v1", TRUE, TRUE, "", 0, SavedOptions, CurrentA, SavedTags) }

SelectionResults == { <<>>, RepeatedResults, AllValueResults }

SelectionCurrents == { CurrentA, CurrentAB, CurrentAll, CurrentX, CurrentTagged, CurrentTagNoValues }

SelectionChosenOptions ==
  { Option(ALL_VARIABLE_TEXT, ALL_VARIABLE_VALUE, FALSE),
    Option(ALL_VARIABLE_TEXT, ALL_VARIABLE_VALUE, TRUE),
    Option(StrA, StrA, FALSE),
    Option(StrA, StrA, TRUE),
    Option(StrB, StrB, FALSE),
    Option(StrX, ALL_VARIABLE_VALUE, FALSE),
    Option(StrX, StrX, FALSE) }

SelectionNext ==
  \/ AddInstance(SelectionModels)
  \/ ReplaceOptionsFromResults(Targets, SelectionResults)
  \/ SetCurrent(Targets, SelectionCurrents)
  \/ SelectOption(Targets, SelectionChosenOptions, BOOLEAN, Events)

SelectionSpec == Init /\ [][SelectionNext]_vars

(***************************************************************************)
(* NormalizeSpec: updateVariableOptions on every short raw result list,    *)
(* under every regex, sort order and includeAll                            *)
(***************************************************************************)

\* raw result lists hold at most this many items
MaxResults == 3

RawItems ==
  { RawItem(Undefined, Str(StrA)),
    RawItem(Str(StrB), Str(StrA)),
    RawItem(Str(StrB), Null),
    RawItem(Null, Num(1)),
    RawItem(Str(StrX), Str(StrOne)),
    RawItem(Str(ALL_VARIABLE_TEXT), Str(ALL_VARIABLE_VALUE)) }

RawResultLists == UNION { [1..n -> RawItems] : n \in 0..MaxResults }

NormalizeModels ==
  { Model("v1", FALSE, includeAll, rs[1], rs[2], <<>>, NoCurrent, <<>>) :
      includeAll \in BOOLEAN,
      rs \in { <<"", 0>>, <<"", 6>>, <<RegexStartsWithA, 1>>, <<RegexAfterFirstChar, 4>> } }

\* the first query results of an instance that holds no options yet
LoadOptions(targets, resultLists) ==
  /\ Len(state) > 0
  /\ \A i \in 1..Len(state) : state[i].variable.options = <<>>
  /\ ReplaceOptionsFromResults(targets, resultLists)

NormalizeNext ==
  \/ AddInstance(NormalizeModels)
  \/ LoadOptions(Targets, RawResultLists)

NormalizeSpec == Init /\ [][NormalizeNext]_vars

(***************************************************************************)
(* PickerSpec: the display cap, on a saved list longer than the cap        *)
(***************************************************************************)

\* 'one more than the cap' options with the values '1', '2', ...; the first selected
ManyOptions == [i \in 1..1001 |-> Option(NumberToString(i), NumberToString(i), i = 1)]

StrTwo == <<50>>

PickerModels ==
  { Model("v1", TRUE, FALSE, "", 0, ManyOptions, Current(Str(StrOne), Str(StrOne), <<>>), <<>>),
    Model("v1", TRUE, TRUE, "", 0, SavedOptions, CurrentA, SavedTags) }

PickerCurrents == { CurrentA, Current(Str(StrTwo), Arr(<<StrOne, StrTwo>>), <<>>) }

PickerChosenOptions == { Option(StrA, StrA, FALSE), Option(StrTwo, StrTwo, FALSE) }

PickerNext ==
  \/ AddInstance(PickerModels)
  \/ ReplaceOptionsFromResults(Targets, {RepeatedResults})
  \/ ReplaceTagsFromResults(Targets, TagResults)
  \/ SetCurrent(Targets, PickerCurrents)
  \/ SelectOption(Targets, PickerChosenOptions, {FALSE}, {NoEvent})
  \/ OpenDropdown(Targets)
  \/ CloseDropdown(Targets)

PickerSpec == Init /\ [][PickerNext]_vars

(***************************************************************************)
(* LockSpec: the three lock events of one instance, interleaved with       *)
(* callers that await the lock; a caller that can go on does               *)
(***************************************************************************)

\* Deferreds ever created under LockSpec
MaxLocks == 2

\* callers that await a lock
MaxAwaiters == 2

LockModels == { Model("v1", FALSE, FALSE, "", 0, <<>>, NoCurrent, <<>>) }

LockNext ==
  \/ AddInstance(LockModels)
  \/ BeginInitLockWithin(Targets, MaxLocks)
  \/ ResolveInitLock(Targets)
  \/ ReleaseInitLock(Targets)
  \/ ReplaceOptionsFromResults(Targets, {RepeatedResults})
  \/ ReplaceTagsFromResults(Targets, TagResults)
  \/ SetCurrent(Targets, {CurrentA})
  \/ SelectOption(Targets, {Option(StrB, StrB, FALSE)}, {FALSE}, {NoEvent})
  \/ OpenDropdown(Targets)
  \/ CloseDropdown(Targets)
  \/ TakeLockHandle(Targets, MaxAwaiters)
  \/ AwaiterCompletes

LockSpec == Init /\ [][LockNext]_vars /\ WF_vars(AwaiterCompletes)

(***************************************************************************)
(* RouterSpec: a collection of up to MaxRouted instances; events routed to *)
(* each of them, to a name no instance has and to another variable type    *)
(***************************************************************************)

\* instances the collection may hold under RouterSpec
MaxRouted == 2

\* v3 is the name of no instance; "custom" is another reducer's variable type
RouterTargets ==
  { <<"query", "v1">>, <<"query", "v2">>, <<"query", "v3">>, <<"custom", "v1">> }

\* the lock events go to v1, the other events to v2, and all of them to the
\* name that is missing and to the other type
RouterLockTargets == RouterTargets \ { <<"query", "v2">> }

RouterContentTargets == RouterTargets \ { <<"query", "v1">> }

\* two query variables and a variable of another type
RouterModels ==
  { Model("v1", TRUE, FALSE, "", 0, <<>>, NoCurrent, <<>>),
    Model("v2", FALSE, TRUE, "", 0, SavedOptions, CurrentA, SavedTags),
    [Model("v1", FALSE, FALSE, "", 0, <<>>, NoCurrent, <<>>) EXCEPT !.type = "custom"] }

RouterNext ==
  \/ AddInstanceWithin(RouterModels, MaxRouted)
  \/ ReplaceOptionsFromResults(RouterContentTargets, {RepeatedResults})
  \/ ReplaceTagsFromResults(RouterContentTargets, TagResults)
  \/ SetCurrent(RouterContentTargets, {CurrentA, CurrentTagNoValues})
  \/ BeginInitLock(RouterLockTargets)
  \/ ResolveInitLock(RouterLockTargets)
  \/ ReleaseInitLock(RouterLockTargets)
  \/ SelectOption(RouterContentTargets, {Option(StrB, StrB, FALSE)}, {FALSE}, {NoEvent})
  \/ OpenDropdown(RouterContentTargets)
  \/ CloseDropdown(RouterContentTargets)

RouterSpec == Init /\ [][RouterNext]_vars

(***************************************************************************)
(* SortSpec: updateVariableOptions under the six sort orders, on raw       *)
(* results whose sort keys tie                                             *)
(***************************************************************************)

\* 'a1', 'A1' and 'b' as texts: a1 and A1 tie as numbers and in lower case;
\* the values 'p', 'q', 'r', 's' are all different
TiedItems ==
  { RawItem(Str(<<97, 49>>), Str(<<112>>)),
    RawItem(Str(<<65, 49>>), Str(<<113>>)),
    RawItem(Str(<<97, 49>>), Str(<<114>>)),
    RawItem(Str(StrB), Str(<<115>>)) }

TiedResultLists == UNION { [1..n -> TiedItems] : n \in 0..MaxResults }

SortModels == { Model("v1", FALSE, FALSE, "", sort, <<>>, NoCurrent, <<>>) : sort \in 1..6 }

SortNext ==
  \/ AddInstance(SortModels)
  \/ LoadOptions(Targets, TiedResultLists)

SortSpec == Init /\ [][SortNext]_vars

(***************************************************************************)
(* Properties                                                              *)
(***************************************************************************)

\* the index of the instance the last action was routed to, or 0
LastTarget ==
  IF last.action.type = "query" THEN FindIndexByName(state, last.action.name) ELSE 0

\* the last action was of this kind, found its instance and returned
After(kind) == last.action.kind = kind /\ ~last.threw /\ LastTarget # 0

\* the four actions whose branch ends in appyStateChanges
PipelineKinds ==
  {"setCurrentVariableValue", "selectVariableOption", "showQueryVariableDropDown",
   "hideQueryVariableDropDown"}

AfterPipeline == last.action.kind \in PipelineKinds /\ ~last.threw /\ LastTarget # 0

TargetVariable == state[LastTarget].variable

TargetPicker == state[LastTarget].picker

SelectedIndexes(options) == {i \in 1..Len(options) : options[i].selected}

\* value equals current.value, or is a member of it when it is an array
ValueInCurrent(value, current) ==
  \/ current.value.k = "string" /\ current.value.s = value
  \/ current.value.k = "array" /\ \E k \in 1..Len(current.value.a) : current.value.a[k] = value

\* C1: after a SelectOption on an instance whose option list is not empty, at
\* least one option of the resulting list is selected.
C1_NonEmptySelectionAfterSelectOption ==
  (After("selectVariableOption") /\ Len(TargetVariable.options) > 0)
    => \E i \in 1..Len(TargetVariable.options) : TargetVariable.options[i].selected

\* C1 witness: a multi-select toggle took the chosen option off and the first
\* option stands selected instead.
C1_Witness ==
  /\ After("selectVariableOption")
  /\ TargetVariable.multi /\ last.action.option.selected /\ ~last.action.forceSelect
  /\ Len(TargetVariable.options) > 1
  /\ \E i \in 2..Len(TargetVariable.options) :
       TargetVariable.options[i].value = last.action.option.value
  /\ SelectedIndexes(TargetVariable.options) = {1}

\* C2 as claimed: with multi = false, after a SelectOption exactly one option is
\* selected, whatever the option list was.
C2_ExactlyOneSelectedWhenSingle ==
  (After("selectVariableOption") /\ ~TargetVariable.multi)
    => Cardinality(SelectedIndexes(TargetVariable.options)) = 1

\* C2 amended: with multi = false, after a SelectOption the selected options are
\* exactly the options that hold the chosen option's value, or the first option
\* alone when no option holds it; on an empty list none is selected.
C2_SelectedAreTheChosenValueWhenSingle ==
  (After("selectVariableOption") /\ ~TargetVariable.multi)
    => LET options == TargetVariable.options
           chosen == {i \in 1..Len(options) : options[i].value = last.action.option.value}
       IN  SelectedIndexes(options) =
             IF chosen # {} THEN chosen ELSE IF Len(options) > 0 THEN {1} ELSE {}

\* C2 witness: a single-select click on the second of two options leaves it the
\* only selected one.
C2_Witness ==
  /\ After("selectVariableOption") /\ ~TargetVariable.multi
  /\ Len(TargetVariable.options) >= 2
  /\ TargetVariable.options[2].value = last.action.option.value
  /\ SelectedIndexes(TargetVariable.options) = {2}

\* C3 as claimed: choosing the "All" option leaves every other option unselected,
\* and choosing any other option leaves the "All" option unselected.
C3_AllOptionExclusive ==
  After("selectVariableOption")
    => \A i \in 1..Len(TargetVariable.options) :
         LET o == TargetVariable.options[i]
         IN  /\ (last.action.option.text = ALL_VARIABLE_TEXT /\ o.text # ALL_VARIABLE_TEXT)
                  => ~o.selected
             /\ (last.action.option.text # ALL_VARIABLE_TEXT /\ o.text = ALL_VARIABLE_TEXT)
                  => ~o.selected

\* C3 amended: when the chosen option or option o is the "All" option and o's
\* value differs from the chosen value, o ends unselected, unless the transition
\* left no option selected and o is the first option, which is then the only
\* selected one.
C3_AllOptionExclusiveButFirstFallback ==
  After("selectVariableOption")
    => \A i \in 1..Len(TargetVariable.options) :
         LET o == TargetVariable.options[i]
         IN  ( /\ o.value # last.action.option.value
               /\ (o.text = ALL_VARIABLE_TEXT \/ last.action.option.text = ALL_VARIABLE_TEXT)
               /\ o.selected )
               => (i = 1 /\ SelectedIndexes(TargetVariable.options) = {1})

\* C3 witness: the "All" option was chosen in a list of three and is the only
\* selected option.
C3_Witness ==
  /\ After("selectVariableOption")
  /\ last.action.option.text = ALL_VARIABLE_TEXT
  /\ Len(TargetVariable.options) >= 3
  /\ TargetVariable.options[1].text = ALL_VARIABLE_TEXT
  /\ TargetVariable.multi
  /\ SelectedIndexes(TargetVariable.options) = {1}

\* C4 as claimed: after SetCurrent as after SelectOption, a non-empty option list
\* has at least one selected option.
C4_NonEmptySelectionAfterSelectionEvents ==
  ((After("selectVariableOption") \/ After("setCurrentVariableValue"))
     /\ Len(TargetVariable.options) > 0)
    => SelectedIndexes(TargetVariable.options) # {}

\* C4 amended: after SelectOption a non-empty list has a selected option; after
\* SetCurrent it has one exactly when some option holds current.value or a
\* member of it.
C4_SelectionAfterSetCurrentFollowsCurrent ==
  /\ (After("selectVariableOption") /\ Len(TargetVariable.options) > 0)
       => SelectedIndexes(TargetVariable.options) # {}
  /\ After("setCurrentVariableValue")
       => (SelectedIndexes(TargetVariable.options) # {}
             <=> \E i \in 1..Len(TargetVariable.options) :
                   ValueInCurrent(TargetVariable.options[i].value, TargetVariable.current))

\* C4 witness: SetCurrent with a value that no option holds left options present
\* and none selected.
C4_Witness ==
  /\ After("setCurrentVariableValue")
  /\ Len(TargetVariable.options) > 1
  /\ SelectedIndexes(TargetVariable.options) = {}

\* C5: no instance holds two options with the same value.
C5_NoDuplicateValues ==
  \A n \in 1..Len(state) :
    \A i, j \in 1..Len(state[n].variable.options) :
      i # j => state[n].variable.options[i].value # state[n].variable.options[j].value

\* the value and the text line 147 and 149 give a raw result, as strings
ResultValue(item) ==
  LET x == IF item.value.k \in {"undefined", "null"} THEN item.text ELSE item.value
  IN  IF x.k = "number" THEN NumberToString(x.n) ELSE x.s

ResultText(item) ==
  LET x == IF item.text.k \in {"undefined", "null"} THEN item.value ELSE item.text
  IN  IF x.k = "number" THEN NumberToString(x.n) ELSE x.s

\* the index of the first result that has this value
FirstResultWithValue(results, value) ==
  CHOOSE i \in 1..Len(results) :
    /\ ResultValue(results[i]) = value
    /\ \A j \in 1..(i - 1) : ResultValue(results[j]) # value

\* the options of the instance without the "All" option put in front and
\* without the "None" option that stands for an empty list
NormalizedOptions(variable) ==
  IF Len(variable.options) = 1 /\ variable.options[1].isNone THEN <<>>
  ELSE IF variable.includeAll THEN Tail(variable.options)
  ELSE variable.options

\* C6: with no regex and sort disabled, the normalized options hold each distinct
\* value of the raw results exactly once, in the order of the values' first
\* occurrences, each with the text of its first occurrence and selected = false.
C6_DedupKeepsFirstOccurrence ==
  (After("updateVariableOptions") /\ TargetVariable.regex = "" /\ TargetVariable.sort = 0)
    => LET results == last.action.results
           options == NormalizedOptions(TargetVariable)
       IN  /\ \A i \in 1..Len(results) :
                Cardinality({p \in 1..Len(options) :
                               options[p].value = ResultValue(results[i])}) = 1
           /\ \A p \in 1..Len(options) :
                /\ \E i \in 1..Len(results) : options[p].value = ResultValue(results[i])
                /\ options[p].text =
                     ResultText(results[FirstResultWithValue(results, options[p].value)])
                /\ ~options[p].selected
           /\ \A p, q \in 1..Len(options) :
                p < q => FirstResultWithValue(results, options[p].value)
                           < FirstResultWithValue(results, options[q].value)

\* C6 witness: the results a, a (with the text b), b gave the options a, b.
C6_Witness ==
  /\ After("updateVariableOptions")
  /\ TargetVariable.regex = "" /\ TargetVariable.sort = 0 /\ ~TargetVariable.includeAll
  /\ last.action.results = RepeatedResults
  /\ TargetVariable.options = <<Option(StrA, StrA, FALSE), Option(StrB, StrB, FALSE)>>

CappedPrefix(options) ==
  SubSeq(options, 1, IF Len(options) <= 1000 THEN Len(options) ELSE 1000)

\* C7 as claimed: in every reachable state picker.options is the prefix of
\* variable.options of length min(len, 1000).
C7_PickerOptionsAlwaysCappedPrefix ==
  \A n \in 1..Len(state) : state[n].picker.options = CappedPrefix(state[n].variable.options)

\* C7 amended: picker.options is that prefix after every transition that runs the
\* post-processing steps (SetCurrent, SelectOption, OpenDropdown, CloseDropdown).
C7_PickerOptionsCappedPrefixAfterPipeline ==
  AfterPipeline => TargetPicker.options = CappedPrefix(TargetVariable.options)

\* C7 witness: a list longer than the cap was cut to the cap.
C7_Witness ==
  /\ AfterPipeline
  /\ Len(TargetVariable.options) > 1000
  /\ Len(TargetPicker.options) = 1000

\* C8 as claimed: in every reachable state picker.selectedValues and
\* picker.selectedTags are the selected options and the selected tags.
C8_PickerSelectionAlwaysDerived ==
  \A n \in 1..Len(state) :
    /\ state[n].picker.selectedValues = SelectSeq(state[n].variable.options, LAMBDA o : o.selected)
    /\ state[n].picker.selectedTags = SelectSeq(state[n].variable.tags, LAMBDA t : t.selected)

\* C8 amended: they are after every transition that runs the post-processing
\* steps (SetCurrent, SelectOption, OpenDropdown, CloseDropdown).
C8_PickerSelectionDerivedAfterPipeline ==
  AfterPipeline =>
    /\ TargetPicker.selectedValues = SelectSeq(TargetVariable.options, LAMBDA o : o.selected)
    /\ TargetPicker.selectedTags = SelectSeq(TargetVariable.tags, LAMBDA t : t.selected)

\* C8 witness: both derived lists hold an element.
C8_Witness ==
  /\ AfterPipeline
  /\ Len(TargetPicker.selectedValues) > 0
  /\ Len(TargetPicker.selectedTags) > 0

FlagsFollowCurrent(variable) ==
  \A i \in 1..Len(variable.options) :
    variable.options[i].selected <=> ValueInCurrent(variable.options[i].value, variable.current)

\* C9 as claimed: after SetCurrent and after SelectOption an option is selected
\* exactly when its value equals current.value or is a member of it.
C9_FlagsFollowCurrentAfterSelectionEvents ==
  (After("selectVariableOption") \/ After("setCurrentVariableValue"))
    => FlagsFollowCurrent(TargetVariable)

\* C9 amended: the flags follow current directly after SetCurrent, and no action
\* but SetCurrent changes an instance's current (SelectOption changes the flags
\* and leaves current as it was).
C9_FlagsFollowCurrentAfterSetCurrentOnly ==
  [][ /\ (last'.action.kind = "setCurrentVariableValue" /\ ~last'.threw)
           => \A n \in 1..Len(state') :
                n = FindIndexByName(state', last'.action.name)
                  => FlagsFollowCurrent(state'[n].variable)
      /\ \A n \in 1..Len(state) :
           state'[n].variable.current # state[n].variable.current
             => last'.action.kind = "setCurrentVariableValue" ]_vars

\* C9 witness: a SelectOption selected an option whose value current does not hold.
C9_Witness ==
  /\ After("selectVariableOption")
  /\ TargetVariable.current.value.k \in {"string", "array"}
  /\ \E i \in 1..Len(TargetVariable.options) :
       /\ TargetVariable.options[i].selected
       /\ ~ValueInCurrent(TargetVariable.options[i].value, TargetVariable.current)

\* C10: ResolveInitLock on an instance that holds no lock, or a resolved one,
\* raises no error and changes nothing.
C10_ResolveWithoutPendingLockIsNoOp ==
  [][ \A n \in 1..Len(state) :
        ( /\ last'.action.kind = "resolveInitLock"
          /\ last'.action.type = "query"
          /\ n = FindIndexByName(state, last'.action.name)
          /\ (state[n].variable.initLock.k # "ref"
                \/ deferreds[state[n].variable.initLock.ref] = "resolved") )
          => (~last'.threw /\ state' = state /\ deferreds' = deferreds) ]_vars

\* C11: once ResolveInitLock has been processed for the instance, every caller
\* that awaits a handle of the instance's lock eventually goes on, the callers
\* that took the handle before a later BeginInitLock replaced the lock included.
C11_NoAwaiterPendingAfterResolve ==
  \A i \in 1..MaxAwaiters :
    (After("resolveInitLock") /\ i \in 1..Len(awaiters) /\ ~awaiters[i].done)
      ~> (i \in 1..Len(awaiters) /\ awaiters[i].done)

\* the kinds of the actions that updateChildState routes
RoutedKinds ==
  { "updateVariableOptions", "updateVariableTags", "setCurrentVariableValue", "setInitLock",
    "resolveInitLock", "removeInitLock", "selectVariableOption", "showQueryVariableDropDown",
    "hideQueryVariableDropDown" }

\* instance n of the collection has the (type, name) the action is routed to
Matches(instance, action) ==
  instance.variable.type = action.type /\ instance.variable.name = action.name

\* C12: a routed event leaves the collection's length and order as they are,
\* changes at most one instance, leaves every instance that does not match
\* (type, name) the same value at the same position, and leaves the whole
\* collection unchanged when its type is not the handled type.
C12_RoutedEventTouchesOnlyItsTarget ==
  [][ last'.action.kind \in RoutedKinds
        => /\ Len(state') = Len(state)
           /\ \A n \in 1..Len(state) : ~Matches(state[n], last'.action) => state'[n] = state[n]
           /\ Cardinality({n \in 1..Len(state) : state'[n] # state[n]}) <= 1
           /\ last'.action.type # "query" => state' = state ]_vars

\* C12 witness: a SelectOption routed to the second of two instances selected its
\* option b; the first instance holds no option.
C12_Witness ==
  /\ After("selectVariableOption")
  /\ Len(state) = 2
  /\ state[1].variable.name = "v1" /\ state[2].variable.name = "v2"
  /\ last.action.name = "v2"
  /\ state[1].variable.options = <<>>
  /\ SelectedIndexes(state[2].variable.options) = {3}

\* C13: a routed event whose name no instance has does not throw and leaves every
\* instance (and every lock) unchanged.
C13_MissingNameIsNoOp ==
  [][ ( /\ last'.action.kind \in RoutedKinds
        /\ \A n \in 1..Len(state) : state[n].variable.name # last'.action.name )
        => (~last'.threw /\ state' = state /\ deferreds' = deferreds) ]_vars

\* C13 witness: ResolveInitLock for a name that neither of two instances has was
\* dispatched and returned.
C13_Witness ==
  /\ last.action.kind = "resolveInitLock" /\ last.action.type = "query"
  /\ ~last.threw
  /\ Len(state) = 2
  /\ \A n \in 1..Len(state) : state[n].variable.name # last.action.name

\* C14: no two instances of the collection have the same (type, name).
C14_UniqueTypeAndName ==
  \A i, j \in 1..Len(state) :
    i # j => <<state[i].variable.type, state[i].variable.name>>
               # <<state[j].variable.type, state[j].variable.name>>

\* the step dispatched a SelectOption that found instance n, with multi set, no
\* modifier key, and a chosen option that is not the "All" option
MultiToggleStep(n) ==
  /\ last'.action.kind = "selectVariableOption" /\ ~last'.threw
  /\ last'.action.type = "query"
  /\ n = FindIndexByName(state, last'.action.name)
  /\ state[n].variable.multi
  /\ ~(last'.action.event.ctrlKey \/ last'.action.event.metaKey \/ last'.action.event.shiftKey)
  /\ last'.action.option.text # ALL_VARIABLE_TEXT
  /\ last'.action.option.value # ALL_VARIABLE_VALUE

IsAllOption(o) == o.text = ALL_VARIABLE_TEXT \/ o.value = ALL_VARIABLE_VALUE

\* the flag a multi toggle gives option o: the chosen value is toggled by the
\* event's flag, the "All" option is cleared, any other option keeps its flag
MultiToggleFlag(o, action) ==
  IF o.value = action.option.value THEN (action.forceSelect \/ ~action.option.selected)
  ELSE IF o.text = ALL_VARIABLE_TEXT THEN FALSE
  ELSE o.selected

\* C15 as claimed: a multi toggle without modifier keys and without the "All"
\* option leaves the flag of every option of another value as it was and sets
\* the chosen option's flag to the negation of the event's flag (or true under
\* forceSelect).
C15_MultiToggleKeepsOthers ==
  [][ \A n \in 1..Len(state) :
        MultiToggleStep(n)
          => \A i \in 1..Len(state[n].variable.options) :
               LET o == state[n].variable.options[i]
               IN  ~IsAllOption(o)
                     => state'[n].variable.options[i].selected
                          = IF o.value = last'.action.option.value
                              THEN (last'.action.forceSelect \/ ~last'.action.option.selected)
                              ELSE o.selected ]_vars

\* C15 amended: the same, unless these flags would leave no option selected: then
\* the first option is selected and no other.
C15_MultiToggleKeepsOthersButFirstFallback ==
  [][ \A n \in 1..Len(state) :
        MultiToggleStep(n)
          => LET options == state[n].variable.options
                 noneLeft == \A i \in 1..Len(options) : ~MultiToggleFlag(options[i], last'.action)
             IN  /\ Len(state'[n].variable.options) = Len(options)
                 /\ \A i \in 1..Len(options) :
                      state'[n].variable.options[i].selected
                        = IF noneLeft THEN i = 1 ELSE MultiToggleFlag(options[i], last'.action) ]_vars

\* C15 witness: with multi set and the options a, b, a click on a without
\* modifier keys left both selected.
C15_Witness ==
  /\ After("selectVariableOption")
  /\ TargetVariable.multi /\ ~TargetVariable.includeAll
  /\ last.action.option = Option(StrA, StrA, FALSE)
  /\ ~last.action.forceSelect /\ last.action.event = NoEvent
  /\ Len(TargetVariable.options) = 2
  /\ TargetVariable.options[1].value = StrA /\ TargetVariable.options[2].value = StrB
  /\ SelectedIndexes(TargetVariable.options) = {1, 2}

\* option x sorts before option y under the key of this sort type
SortKeyLess(sortType, x, y) ==
  IF sortType = 1 THEN StrLess(TextSortKey(x), TextSortKey(y))
  ELSE IF sortType = 2 THEN NumericSortKey(x) < NumericSortKey(y)
  ELSE StrLess(LowerSortKey(x), LowerSortKey(y))

SortKeyTied(sortType, x, y) == ~SortKeyLess(sortType, x, y) /\ ~SortKeyLess(sortType, y, x)

\* options holds the distinct values of results, ascending by the key, and the
\* options whose keys tie stand in the order of the results
IsStableAscending(options, results, sortType) ==
  /\ \A i \in 1..Len(results) :
       Cardinality({p \in 1..Len(options) : options[p].value = ResultValue(results[i])}) = 1
  /\ \A p \in 1..Len(options) : \E i \in 1..Len(results) : options[p].value = ResultValue(results[i])
  /\ \A p, q \in 1..Len(options) :
       p < q => /\ ~SortKeyLess(sortType, options[q], options[p])
                /\ SortKeyTied(sortType, options[p], options[q])
                     => FirstResultWithValue(results, options[p].value)
                          < FirstResultWithValue(results, options[q].value)

\* options read from the last element to the first
ReadBackwards(options) == [i \in 1..Len(options) |-> options[Len(options) + 1 - i]]

\* updateVariableOptions sorted a list that is not the "None" option
AfterSort ==
  /\ After("updateVariableOptions")
  /\ TargetVariable.sort # 0 /\ TargetVariable.regex = "" /\ ~TargetVariable.includeAll
  /\ Len(last.action.results) > 0

\* C16 as claimed: under each of the six sort orders the options whose keys tie
\* keep the order of the input, and a reversed order's result is exactly the
\* reverse of the result of the matching ascending order.
C16_StableInEveryOrder ==
  AfterSort
    => LET options == TargetVariable.options
           results == last.action.results
           sortType == (TargetVariable.sort + 1) \div 2
       IN  /\ \A p, q \in 1..Len(options) :
                (p < q /\ SortKeyTied(sortType, options[p], options[q]))
                  => FirstResultWithValue(results, options[p].value)
                       < FirstResultWithValue(results, options[q].value)
           /\ TargetVariable.sort % 2 = 1 => IsStableAscending(options, results, sortType)
           /\ TargetVariable.sort % 2 = 0
                => IsStableAscending(ReadBackwards(options), results, sortType)

\* C16 amended: the ascending orders (1, 3, 5) are stable; a reversed order's
\* result (2, 4, 6) is exactly the reverse of the ascending result, so there the
\* options whose keys tie stand in the reverse of the input order.
C16_StableAscendingAndExactReverse ==
  AfterSort
    => LET options == TargetVariable.options
           results == last.action.results
           sortType == (TargetVariable.sort + 1) \div 2
       IN  /\ TargetVariable.sort % 2 = 1 => IsStableAscending(options, results, sortType)
           /\ TargetVariable.sort % 2 = 0
                => IsStableAscending(ReadBackwards(options), results, sortType)

\* C16 witness: a reversed order sorted two options whose keys tie; they stand in
\* the reverse of their input order.
C16_Witness ==
  /\ AfterSort
  /\ TargetVariable.sort % 2 = 0
  /\ \E p, q \in 1..Len(TargetVariable.options) :
       /\ p < q
       /\ SortKeyTied((TargetVariable.sort + 1) \div 2,
                      TargetVariable.options[p], TargetVariable.options[q])
       /\ FirstResultWithValue(last.action.results, TargetVariable.options[p].value)
            > FirstResultWithValue(last.action.results, TargetVariable.options[q].value)

\* C17: SetCurrent(current) selects exactly the options whose value is a member
\* of current.value (an array) or equals it (a scalar), and leaves the values,
\* the texts and the order of the options as they were.
C17_SetCurrentSelectsByValue ==
  [][ \A n \in 1..Len(state) :
        ( /\ last'.action.kind = "setCurrentVariableValue" /\ ~last'.threw
          /\ last'.action.type = "query"
          /\ n = FindIndexByName(state, last'.action.name) )
          => LET before == state[n].variable.options
                 after == state'[n].variable.options
                 value == last'.action.current.value
             IN  /\ Len(after) = Len(before)
                 /\ \A i \in 1..Len(before) :
                      /\ after[i].text = before[i].text
                      /\ after[i].value = before[i].value
                      /\ after[i].selected
                           <=> IF value.k = "array"
                                 THEN \E m \in 1..Len(value.a) : value.a[m] = before[i].value
                                 ELSE value.k = "string" /\ value.s = before[i].value ]_vars

\* C17 witness: SetCurrent with the array value a, b selected the second and the
\* third of the options All, a, b and not the first.
C17_Witness ==
  /\ After("setCurrentVariableValue")
  /\ last.action.current.value = Arr(<<StrA, StrB>>)
  /\ Len(TargetVariable.options) = 3
  /\ TargetVariable.options[1].value = ALL_VARIABLE_VALUE
  /\ SelectedIndexes(TargetVariable.options) = {2, 3}

\* C18: after ReplaceOptionsFromResults the option list is not empty, its first
\* element is the "All" option exactly when includeAll is set, the "None" option
\* is present exactly when the normalized results are empty and includeAll is
\* not set, then as the only option, and no option is selected.
C18_AllFirstAndNoneWhenEmpty ==
  After("updateVariableOptions")
    => LET options == TargetVariable.options
           includeAll == TargetVariable.includeAll
           normalized == metricNamesToVariableValues(TargetVariable.regex, TargetVariable.sort,
                                                     last.action.results)
           nonePresent == \E p \in 1..Len(options) :
                            options[p].isNone /\ options[p].value = NONE_VARIABLE_VALUE
       IN  /\ Len(options) > 0
           /\ (options[1].text = ALL_VARIABLE_TEXT /\ options[1].value = ALL_VARIABLE_VALUE)
                <=> includeAll
           /\ nonePresent <=> (Len(normalized) = 0 /\ ~includeAll)
           /\ nonePresent => Len(options) = 1
           /\ \A p \in 1..Len(options) : ~options[p].selected

\* the link text of the claim: current.text without tags; with tags the texts of
\* the selected options that no tag's values hold, joined with " + ", and a
\* trailing " + " when the join is not empty
ExpectedLinkText(variable) ==
  LET covered(value) ==
        \E t \in 1..Len(variable.current.tags) :
          \E v \in 1..Len(variable.current.tags[t].values) :
            variable.current.tags[t].values[v] = value
      shown == SelectSeq(variable.options, LAMBDA o : o.selected /\ ~covered(o.value))
      joined == Join([i \in 1..Len(shown) |-> shown[i].text], PlusSeparator)
  IN  IF Len(variable.current.tags) = 0 THEN variable.current.text
      ELSE Str(IF Len(joined) > 0 THEN joined \o PlusSeparator ELSE joined)

\* C19: every SetCurrent, SelectOption, OpenDropdown and CloseDropdown routed to
\* an instance computes picker.linkText without raising an error, for tags with
\* and without a values list, and leaves it equal to the link text above.
C19_LinkTextComputedWithoutError ==
  (last.action.kind \in PipelineKinds /\ LastTarget # 0)
    => (~last.threw /\ TargetPicker.linkText = ExpectedLinkText(TargetVariable))

\* the step dispatched an action of this kind that was routed to instance n
RoutedStep(n, kind) ==
  /\ awaiters' = awaiters
  /\ last'.action.kind = kind
  /\ last'.action.type = "query"
  /\ n = FindIndexByName(state, last'.action.name)

\* instance n is as before but for its lock
OnlyLockChanged(n) ==
  state'[n] = [state[n] EXCEPT !.variable.initLock = state'[n].variable.initLock]

\* C20: BeginInitLock leaves the instance with a fresh pending lock, also when
\* it held one; ReleaseInitLock leaves it with none; ResolveInitLock keeps the
\* handle; the three leave options, tags, current and picker unchanged; and no
\* other event changes the lock of an instance.
C20_LockChangesOnlyByLockEvents ==
  [][ \A n \in 1..Len(state) :
        /\ RoutedStep(n, "setInitLock")
             => /\ state'[n].variable.initLock.k = "ref"
                /\ state'[n].variable.initLock.ref \notin 1..Len(deferreds)
                /\ state'[n].variable.initLock.ref \in 1..Len(deferreds')
                /\ deferreds'[state'[n].variable.initLock.ref] = "pending"
                /\ OnlyLockChanged(n)
        /\ RoutedStep(n, "removeInitLock")
             => (state'[n].variable.initLock.k # "ref" /\ OnlyLockChanged(n))
        /\ RoutedStep(n, "resolveInitLock") => state'[n] = state[n]
        /\ state'[n].variable.initLock # state[n].variable.initLock
             => (RoutedStep(n, "setInitLock") \/ RoutedStep(n, "removeInitLock")) ]_vars

\* C20 witness: BeginInitLock replaced a pending lock by a second pending one.
C20_Witness ==
  /\ After("setInitLock")
  /\ TargetVariable.initLock = InitLockRef(2)
  /\ deferreds = <<"pending", "pending">>

====
